---- MODULE Spec2Model ----
(***************************************************************************)
(* A model of httpie/downloads.py: the Content-Range parser, the Progress  *)
(* counters, the ProgressReporter timer task and the Download orchestrator.*)
(*                                                                         *)
(* Header values are sequences of one-character strings, so that parsing   *)
(* and formatting are computed character by character.  Python's None is   *)
(* the number NONE for optional integers and the empty sequence for an     *)
(* optional regex group.  Time is counted in units of 0.1 s.               *)
(***************************************************************************)
EXTENDS Integers, Sequences, FiniteSets, TLC

\* ------------------------------------------------------------------ bounds
\* Largest byte position / instance length offered to the parser on its own.
MaxPos == 11

\* ------------------------------------------------------- program constants
PARTIAL_CONTENT == 206

\* Python's None for an optional non-negative integer.
NONE == -1

\* ---------------------------------------------------------------- strings
DigitChars == <<"0", "1", "2", "3", "4", "5", "6", "7", "8", "9">>

DigitSet == {DigitChars[i] : i \in 1..10}

DigitVal(c) == (CHOOSE i \in 1..10 : DigitChars[i] = c) - 1

\* Python's '%d' % n and str(n) for n >= 0.
RECURSIVE Str(_)
Str(n) == IF n < 10 THEN <<DigitChars[n + 1]>>
          ELSE Str(n \div 10) \o <<DigitChars[(n % 10) + 1]>>

\* Python's int(s) for a string of decimal digits (leading zeros allowed).
RECURSIVE IntOf(_)
IntOf(s) == IF Len(s) = 0 THEN 0
            ELSE 10 * IntOf(SubSeq(s, 1, Len(s) - 1)) + DigitVal(s[Len(s)])

\* The regex \d+ matched against the whole of s.
IsDigits(s) == Len(s) > 0 /\ \A i \in 1..Len(s) : s[i] \in DigitSet

\* Index of the first occurrence of character c in s, 0 when there is none.
FirstIndex(s, c) ==
    IF \E i \in 1..Len(s) : s[i] = c
    THEN CHOOSE i \in 1..Len(s) : s[i] = c /\ \A j \in 1..(i - 1) : s[j] # c
    ELSE 0

BytesPrefix == <<"b", "y", "t", "e", "s", " ">>

\* re.match('^bytes (?P<first_byte_pos>\d+)-(?P<last_byte_pos>\d+)'
\*          '/(\*|(?P<instance_length>\d+))$', s).groupdict().
\* A digit run holds neither '-' nor '/', so the first '-' and the first '/'
\* are the only places the two literals can match.  A group that did not
\* take part in the match (instance_length after '*') is the empty sequence.
ContentRangeMatch(s) ==
    LET n == Len(s)
        p == Len(BytesPrefix)
        dash == FirstIndex(s, "-")
        slash == FirstIndex(s, "/")
        first == SubSeq(s, p + 1, dash - 1)
        last == SubSeq(s, dash + 1, slash - 1)
        rest == SubSeq(s, slash + 1, n)
        ok == /\ n > p
              /\ SubSeq(s, 1, p) = BytesPrefix
              /\ dash > p + 1
              /\ slash > dash + 1
              /\ slash < n
              /\ IsDigits(first)
              /\ IsDigits(last)
              /\ (rest = <<"*">> \/ IsDigits(rest))
    IN  IF ok
        THEN [matched |-> TRUE, first_byte_pos |-> first, last_byte_pos |-> last,
              instance_length |-> IF rest = <<"*">> THEN <<>> ELSE rest]
        ELSE [matched |-> FALSE, first_byte_pos |-> <<>>, last_byte_pos |-> <<>>,
              instance_length |-> <<>>]

Returned(v) == [tag |-> "ok", val |-> v]

Raised(e) == [tag |-> e, val |-> NONE]

\* if (first_byte_pos >= last_byte_pos
\*         or (instance_length is not None
\*             and instance_length <= last_byte_pos)):
InvalidRange(first_byte_pos, last_byte_pos, instance_length) ==
    \/ first_byte_pos >= last_byte_pos
    \/ (instance_length # NONE /\ instance_length <= last_byte_pos)

\* if (first_byte_pos != resumed_from
\*     or (instance_length is not None
\*         and last_byte_pos + 1 != instance_length)):
UnexpectedRange(first_byte_pos, last_byte_pos, instance_length, resumed_from) ==
    \/ first_byte_pos # resumed_from
    \/ (instance_length # NONE /\ last_byte_pos + 1 # instance_length)

\* The variant of parse_content_range that returns the length of the range
\* sent instead of the position after its last byte.
parse_content_range_remaining(content_range, resumed_from) ==
    LET match == ContentRangeMatch(content_range)
        first_byte_pos == IntOf(match.first_byte_pos)
        last_byte_pos == IntOf(match.last_byte_pos)
        instance_length == IF match.instance_length # <<>>
                           THEN IntOf(match.instance_length)
                           ELSE NONE
    IN  IF ~match.matched THEN Raised("ContentRangeError")
        ELSE IF InvalidRange(first_byte_pos, last_byte_pos, instance_length)
        THEN Raised("ContentRangeError")
        ELSE IF UnexpectedRange(first_byte_pos, last_byte_pos, instance_length,
                                resumed_from)
        THEN Raised("ContentRangeError")
        ELSE Returned(last_byte_pos - first_byte_pos + 1)

\* The variant of parse_content_range that checks nothing but the grammar.
parse_content_range_lenient(content_range, resumed_from) ==
    LET match == ContentRangeMatch(content_range)
    IN  IF ~match.matched THEN Raised("ContentRangeError")
        ELSE Returned(IntOf(match.last_byte_pos) + 1)

parse_content_range(content_range, resumed_from) ==
    LET match == ContentRangeMatch(content_range)
        first_byte_pos == IntOf(match.first_byte_pos)
        last_byte_pos == IntOf(match.last_byte_pos)
        instance_length == IF match.instance_length # <<>>
                           THEN IntOf(match.instance_length)
                           ELSE NONE
    IN  IF ~match.matched THEN Raised("ContentRangeError")
        ELSE IF InvalidRange(first_byte_pos, last_byte_pos, instance_length)
        THEN Raised("ContentRangeError")
        ELSE IF UnexpectedRange(first_byte_pos, last_byte_pos, instance_length,
                                resumed_from)
        THEN Raised("ContentRangeError")
        ELSE Returned(last_byte_pos + 1)

\* -------------------------------------------------- Content-Range headers
\* The header a server sends for the byte range first-last of an instance
\* of length len (NONE: unknown, sent as '*'), written in the given shape.
\* The shapes "ok" and "zeros" follow the grammar
\* bytes <first>-<last>/(<len>|*); the others break it in one place.
HeaderShapes == {"ok", "zeros", "noprefix", "upper", "nodash", "noslash",
                 "nolength", "nofirst", "trailing", "starlen", "empty"}

GrammarShapes == {"ok", "zeros"}

LengthText(len) == IF len = NONE THEN <<"*">> ELSE Str(len)

ContentRangeHeader(shape, first, last, len) ==
    CASE shape = "ok" ->
           BytesPrefix \o Str(first) \o <<"-">> \o Str(last) \o <<"/">>
               \o LengthText(len)
      [] shape = "zeros" ->
           BytesPrefix \o <<"0">> \o Str(first) \o <<"-">> \o <<"0">>
               \o Str(last) \o <<"/">> \o LengthText(len)
      [] shape = "noprefix" ->
           Str(first) \o <<"-">> \o Str(last) \o <<"/">> \o LengthText(len)
      [] shape = "upper" ->
           <<"B", "y", "t", "e", "s", " ">> \o Str(first) \o <<"-">>
               \o Str(last) \o <<"/">> \o LengthText(len)
      [] shape = "nodash" ->
           BytesPrefix \o Str(first) \o <<" ">> \o Str(last) \o <<"/">>
               \o LengthText(len)
      [] shape = "noslash" ->
           BytesPrefix \o Str(first) \o <<"-">> \o Str(last)
      [] shape = "nolength" ->
           BytesPrefix \o Str(first) \o <<"-">> \o Str(last) \o <<"/">>
      [] shape = "nofirst" ->
           BytesPrefix \o <<"-">> \o Str(last) \o <<"/">> \o LengthText(len)
      [] shape = "trailing" ->
           BytesPrefix \o Str(first) \o <<"-">> \o Str(last) \o <<"/">>
               \o LengthText(len) \o <<" ">>
      [] shape = "starlen" ->
           BytesPrefix \o Str(first) \o <<"-">> \o Str(last) \o <<"/">>
               \o <<"*">> \o LengthText(len)
      [] OTHER -> <<>>

\* ------------------------------------------------------------- Progress
\* class Progress: __init__
ProgressInit ==
    [downloaded |-> 0, total_size |-> NONE, resumed_from |-> 0,
     total_size_humanized |-> <<"?">>, time_started |-> NONE,
     time_finished |-> NONE]

\* utils.humanize_bytes(n) for a number n: the same quantity in human units.
humanize_bytes(n) == <<"human", n>>

\* Python truthiness of an optional number: None and 0 are false.
Truthy(x) == x # NONE /\ x # 0

\* Progress.started(resumed_from, total_size) at time t.
\* (started_zero: the variant that starts the byte counter at 0.)
started_zero(p, resumed_from, total_size, t) ==
    IF p.time_started # NONE
    THEN [raised |-> "AssertionError", progress |-> p]
    ELSE [raised |-> "",
          progress |-> [p EXCEPT
             !.total_size_humanized =
                 IF total_size # NONE THEN humanize_bytes(total_size) ELSE @,
             !.total_size = IF total_size # NONE THEN total_size ELSE @,
             !.downloaded = 0,
             !.resumed_from = resumed_from,
             !.time_started = t]]

started(p, resumed_from, total_size, t) ==
    IF p.time_started # NONE
    THEN [raised |-> "AssertionError", progress |-> p]
    ELSE [raised |-> "",
          progress |-> [p EXCEPT
             !.total_size_humanized =
                 IF total_size # NONE THEN humanize_bytes(total_size) ELSE @,
             !.total_size = IF total_size # NONE THEN total_size ELSE @,
             !.downloaded = resumed_from,
             !.resumed_from = resumed_from,
             !.time_started = t]]

\* Progress.chunk_downloaded(size)
\* (chunk_downloaded_replace: the variant that assigns instead of adding;
\* chunk_downloaded_unguarded: the variant without the assertion.)
chunk_downloaded_replace(p, size) ==
    IF p.time_finished # NONE
    THEN [raised |-> "AssertionError", progress |-> p]
    ELSE [raised |-> "", progress |-> [p EXCEPT !.downloaded = size]]

chunk_downloaded_unguarded(p, size) ==
    [raised |-> "", progress |-> [p EXCEPT !.downloaded = @ + size]]

chunk_downloaded(p, size) ==
    IF p.time_finished # NONE
    THEN [raised |-> "AssertionError", progress |-> p]
    ELSE [raised |-> "", progress |-> [p EXCEPT !.downloaded = @ + size]]

\* Progress.has_finished
has_finished(p) == p.time_finished # NONE

\* Progress.finished() at time t.
\* (finished_unguarded: the variant without the two assertions.)
finished_unguarded(p, t) ==
    [raised |-> "", progress |-> [p EXCEPT !.time_finished = t]]

finished(p, t) ==
    IF p.time_started = NONE
    THEN [raised |-> "AssertionError", progress |-> p]
    ELSE IF p.time_finished # NONE
    THEN [raised |-> "AssertionError", progress |-> p]
    ELSE [raised |-> "", progress |-> [p EXCEPT !.time_finished = t]]

\* ------------------------------------------------------ ProgressReporter
\* ProgressReporter.__init__(tick=.1, update_interval=1), in units of 0.1 s.
Tick == 1

UpdateInterval == 10

\* len(SPINNER)
SpinnerLen == 4

\* The status line before the first speed sample: ''.
EmptyLine ==
    [template |-> "", percentage |-> NONE, downloaded |-> <<>>,
     total |-> <<>>, speed |-> <<>>, eta |-> <<>>]

\* ProgressReporter.__init__ at time t.
ReporterInit(t) ==
    [prev_bytes |-> 0, prev_time |-> t, spinner_pos |-> 0,
     status_line |-> EmptyLine]

Abs(x) == IF x >= 0 THEN x ELSE 0 - x

\* int(x / y) for y # 0: Python's int() truncates towards zero.
TruncDiv(x, y) ==
    IF (x >= 0) = (y > 0) THEN Abs(x) \div Abs(y)
    ELSE 0 - (Abs(x) \div Abs(y))

\* downloaded / total_size * 100 as '{percentage: 6.2f}' shows it: hundredths
\* of a percent, rounded to the nearest.
Percentage(downloaded, total_size) ==
    (2 * 10000 * downloaded + total_size) \div (2 * total_size)

\* template.format(percentage=, downloaded=, total=, speed=, eta=): a field
\* the template does not name is not rendered.
FormatLine(template, percentage, downloaded, total, speed, eta) ==
    IF template = "PROGRESS"
    THEN [template |-> template, percentage |-> percentage,
          downloaded |-> downloaded, total |-> total, speed |-> speed,
          eta |-> eta]
    ELSE [template |-> template, percentage |-> NONE,
          downloaded |-> downloaded, total |-> <<>>, speed |-> speed,
          eta |-> eta]

\* The speed/ETA sample of report_speed (the body of its 'if'), taken at
\* time t with t - prev_time >= update_interval.  A speed is the pair
\* <<bytes, time>>; the ETA is <<"?">> or <<"s", seconds>>.
\* 'self.progress.total_size - downloaded' is evaluated before the division,
\* so with total_size None it raises TypeError, which 'except
\* ZeroDivisionError' does not catch.
SpeedSample(p, r, t) ==
    LET downloaded == p.downloaded
        template == IF Truthy(p.total_size) THEN "PROGRESS"
                    ELSE "PROGRESS_NO_CONTENT_LENGTH"
        percentage == IF Truthy(p.total_size)
                      THEN Percentage(downloaded, p.total_size)
                      ELSE NONE
        bytes == downloaded - r.prev_bytes
        elapsed == t - r.prev_time
        zero == elapsed = 0 \/ bytes = 0
        speed == IF zero THEN <<0, 1>> ELSE <<bytes, elapsed>>
        eta == IF zero THEN <<"?">>
               ELSE <<"s", TruncDiv((p.total_size - downloaded) * elapsed,
                                    bytes)>>
    IN  IF elapsed # 0 /\ p.total_size = NONE
        THEN [raised |-> "TypeError", reporter |-> r]
        ELSE [raised |-> "",
              reporter |-> [r EXCEPT
                 !.status_line = FormatLine(template, percentage,
                                            humanize_bytes(downloaded),
                                            p.total_size_humanized,
                                            humanize_bytes(speed), eta),
                 !.prev_time = t,
                 !.prev_bytes = downloaded]]

\* The spinner position after one live line.
NextSpinnerPos(pos) == IF pos + 1 # SpinnerLen THEN pos + 1 ELSE 0

\* ProgressReporter.report_speed() at time t: the sample when it is due, then
\* the line written (glyph: the spinner position shown) and the spinner moved.
report_speed(p, r, t) ==
    LET due == t - r.prev_time >= UpdateInterval
        s == IF due THEN SpeedSample(p, r, t) ELSE [raised |-> "", reporter |-> r]
    IN  IF s.raised # ""
        THEN [raised |-> s.raised, reporter |-> r, live |-> 0, glyph |-> NONE]
        ELSE [raised |-> "",
              reporter |-> [s.reporter EXCEPT
                               !.spinner_pos = NextSpinnerPos(@)],
              live |-> 1,
              glyph |-> s.reporter.spinner_pos]

\* ProgressReporter.sum_up(): the exception it raises, "" when it writes the
\* summary.  Two things are not decided by the state, and env says how they
\* go: humanize_bytes(None) is outside this file (env.none_raises: it
\* raises), and two time() readings less than 0.1 s apart may or may not be
\* the same number (env.same_reading: they are, and time_taken is 0).
\* The arguments of SUMMARY.format are evaluated in order: total before speed.
sum_up(p, env) ==
    LET actually_downloaded == p.downloaded - p.resumed_from
        time_taken == p.time_finished - p.time_started
    IN  IF p.total_size = NONE /\ env.none_raises THEN "TypeError"
        ELSE IF time_taken = 0 /\ env.same_reading THEN "ZeroDivisionError"
        ELSE ""

\* No summary written yet.
NoSummary == [downloaded |-> <<>>, total |-> <<>>, time |-> NONE,
              speed |-> <<>>]

\* The variant of SummaryLine that counts the bytes present before the resume.
SummaryLine_all_bytes(p) ==
    [downloaded |-> humanize_bytes(p.downloaded),
     total |-> humanize_bytes(p.total_size),
     time |-> p.time_finished - p.time_started,
     speed |-> humanize_bytes(<<p.downloaded,
                                p.time_finished - p.time_started>>)]

\* The values sum_up gives SUMMARY.format: the speed actually_downloaded /
\* time_taken is the pair <<bytes, time>>.
SummaryLine(p) ==
    LET actually_downloaded == p.downloaded - p.resumed_from
        time_taken == p.time_finished - p.time_started
    IN  [downloaded |-> humanize_bytes(actually_downloaded),
         total |-> humanize_bytes(p.total_size),
         time |-> time_taken,
         speed |-> humanize_bytes(<<actually_downloaded, time_taken>>)]

\* ProgressReporter.report() at time t: what it wrote, the reporter after
\* it, and whether it started the next threading.Timer.
report(p, r, t, env) ==
    IF has_finished(p)
    THEN LET e == sum_up(p, env)
         IN  [raised |-> e, reporter |-> r, live |-> 0, glyph |-> NONE,
              summary |-> IF e = "" THEN 1 ELSE 0,
              summary_line |-> IF e = "" THEN SummaryLine(p) ELSE NoSummary,
              schedule |-> FALSE]
    ELSE LET s == report_speed(p, r, t)
         IN  [raised |-> s.raised, reporter |-> s.reporter, live |-> s.live,
              glyph |-> s.glyph, summary |-> 0, summary_line |-> NoSummary,
              schedule |-> s.raised = ""]

\* ------------------------------------------------------------- file names
\* Text is a sequence of one-character strings, as for the headers above.
\* What matches \S, and what matches [a-zA-Z0-9._-].
IsSpace(c) == c \in {" ", "\t", "\n", "\r"}

NameChars ==
    {"a", "b", "c", "d", "e", "f", "g", "h", "i", "j", "k", "l", "m",
     "n", "o", "p", "q", "r", "s", "t", "u", "v", "w", "x", "y", "z",
     "A", "B", "C", "D", "E", "F", "G", "H", "I", "J", "K", "L", "M",
     "N", "O", "P", "Q", "R", "S", "T", "U", "V", "W", "X", "Y", "Z",
     "0", "1", "2", "3", "4", "5", "6", "7", "8", "9", ".", "_", "-"}

\* 'filename='
FilenameKey == <<"f", "i", "l", "e", "n", "a", "m", "e", "=">>

\* None, where a text is expected.
NoFilename == <<"<None>">>

\* re.search('filename=(\S+)', s): where a match can start, and the last
\* position of the greedy group that starts at position i.
SearchStarts(s) ==
    {i \in 1..Len(s) : /\ i + Len(FilenameKey) <= Len(s)
                       /\ SubSeq(s, i, i + Len(FilenameKey) - 1) = FilenameKey
                       /\ ~IsSpace(s[i + Len(FilenameKey)])}

GroupEnd(s, i) ==
    CHOOSE j \in i..Len(s) : /\ \A k \in i..j : ~IsSpace(s[k])
                             /\ j = Len(s) \/ IsSpace(s[j + 1])

\* fn.lstrip('.')
RECURSIVE LStripDots(_)
LStripDots(s) ==
    IF s # <<>> /\ Head(s) = "." THEN LStripDots(Tail(s)) ELSE s

\* re.match('^[a-zA-Z0-9._-]+$', fn)
ValidFilename(fn) == fn # <<>> /\ \A k \in 1..Len(fn) : fn[k] \in NameChars

filename_from_content_disposition(content_disposition) ==
    LET starts == SearchStarts(content_disposition)
    IN  IF starts = {}
        THEN NoFilename
        ELSE LET first == CHOOSE i \in starts : \A j \in starts : i <= j
                 from == first + Len(FilenameKey)
                 group == SubSeq(content_disposition, from,
                                 GroupEnd(content_disposition, from))
                 fn == LStripDots(group)
             IN  IF ValidFilename(fn) THEN fn ELSE NoFilename

\* suffix = '-' + str(attempt) if attempt > 0 else ''
Suffix(attempt) == IF attempt > 0 THEN <<"-">> \o Str(attempt) ELSE <<>>

\* The variant of get_unique_filename that numbers the first attempt too.
get_unique_filename_numbered(fn, taken) ==
    LET free == CHOOSE k \in 0..Cardinality(taken) :
                    /\ (fn \o <<"-">> \o Str(k)) \notin taken
                    /\ \A j \in 0..(k - 1) :
                          (fn \o <<"-">> \o Str(j)) \in taken
    IN  fn \o <<"-">> \o Str(free)

\* The while loop of get_unique_filename from the given attempt on; exists is
\* membership in the set taken of the names that exist.
RECURSIVE UniqueFrom(_, _, _)
UniqueFrom(fn, taken, attempt) ==
    IF (fn \o Suffix(attempt)) \notin taken
    THEN fn \o Suffix(attempt)
    ELSE UniqueFrom(fn, taken, attempt + 1)

get_unique_filename(fn, taken) == UniqueFrom(fn, taken, 0)

\* ------------------------------------------------------------------ bounds
\* Content-Length values and byte positions of the responses given to start.
MaxLen == 2

\* Largest size of the output file found on disk by pre_request.
MaxFile == 1

\* Largest chunk handed to the chunk callback, and the most bytes counted.
MaxChunk == 2

MaxBytes == 3

\* The clock reads ClockStart when the Download is constructed (time() is
\* never 0) and the model follows it for MaxElapsed units of 0.1 s.
ClockStart == 1

MaxElapsed == 11

\* The same, where every order of calls is followed.
MaxElapsedCalls == 1

\* Longest filename value written after 'filename=' in a Content-Disposition
\* header, and the largest numbered name that may exist already.
MaxName == 4

MaxTaken == 3

\* ------------------------------------------------------------------ state
VARIABLES
    crShape,     \* parser on its own: the shape of the header under test
    crFirst,     \*   the numbers the header was written from
    crLast,
    crLength,
    crFrom,      \*   the resumed_from argument
    crResult,    \*   what parse_content_range did ("none" before the call)
    dl,          \* Download: _output_file ("None" or "file"), its closed
                 \*   flag, _resume, _resumed_from
    fileSize,    \* size on disk of the output file, as getsize/truncate see it
    request_headers, \* the dict pre_request alters
    progress,    \* Download._progress
    reporter,    \* Download._progress_reporter
    output,      \* what the reporter wrote to its output so far
    timers,      \* due times of the threading.Timer objects started
    now,         \* time()
    lastCall,    \* the latest step: its name and the exception it raised
    hist,        \* bookkeeping of the calls made, for stating properties
    cdPrefix,    \* Content-Disposition: the header up to the filename value
    cdValue,     \*   the value written after it
    cdResult,    \*   what filename_from_content_disposition returned
    ufName,      \* get_unique_filename: the candidate name
    ufTaken,     \*   the names for which exists() is true
    ufResult     \*   the name returned

crVars == <<crShape, crFirst, crLast, crLength, crFrom, crResult>>

dlVars == <<dl, fileSize, request_headers, progress, reporter, output,
            timers, now, lastCall, hist>>

fnVars == <<cdPrefix, cdValue, cdResult, ufName, ufTaken, ufResult>>

vars == <<crVars, dlVars, fnVars>>

\* A header the response does not carry.
Absent == <<"<absent>">>

NoRead == [status_code |-> 0, content_length |-> Absent,
           content_range |-> Absent]

\* Download.__init__ at time ClockStart, before any call.
DlIdle ==
    /\ dl = [output_file |-> "None", closed |-> FALSE, resume |-> FALSE,
             resumed_from |-> 0]
    /\ fileSize = 0
    /\ request_headers = [accept_encoding |-> "unset", range |-> Absent]
    /\ progress = ProgressInit
    /\ reporter = ReporterInit(ClockStart)
    /\ output = [saving |-> 0, live |-> 0, summaries |-> 0, glyph |-> NONE,
                 summary |-> NoSummary]
    /\ timers = <<>>
    /\ now = ClockStart
    /\ lastCall = [op |-> "init", raised |-> ""]
    /\ hist = [chunkSum |-> 0, windowSum |-> 0, startReturned |-> FALSE,
               finishReturned |-> FALSE, read |-> NoRead]


\* A function not called yet.
NotCalled == <<"<not called>">>

FnIdle ==
    /\ cdPrefix = <<>>
    /\ cdValue = <<>>
    /\ cdResult = NotCalled
    /\ ufName = <<"a">>
    /\ ufTaken = {}
    /\ ufResult = NotCalled

\* ------------------------------------------------- the parser on its own
NoCall == [tag |-> "none", val |-> NONE]

CrIdle ==
    /\ crShape = "empty"
    /\ crFirst = 0
    /\ crLast = 0
    /\ crLength = NONE
    /\ crFrom = 0
    /\ crResult = NoCall

InitParse ==
    /\ crShape \in HeaderShapes
    /\ crFirst \in 0..MaxPos
    /\ crLast \in 0..MaxPos
    /\ crLength \in {NONE} \cup (0..(MaxPos + 1))
    /\ crFrom \in 0..MaxPos
    /\ crResult = NoCall
    /\ DlIdle
    /\ FnIdle

\* parse_content_range(content_range, resumed_from) on the header drawn.
ParseCall ==
    /\ crResult = NoCall
    /\ crResult' = parse_content_range(
                       ContentRangeHeader(crShape, crFirst, crLast, crLength),
                       crFrom)
    /\ UNCHANGED <<crShape, crFirst, crLast, crLength, crFrom>>
    /\ UNCHANGED <<dlVars, fnVars>>

NextParse == ParseCall

SpecParse == InitParse /\ [][NextParse]_vars

\* --------------------------------------------- the file names on their own
\* 'attachment; filename=' and a header that names no file.
AttachmentFilename ==
    <<"a", "t", "t", "a", "c", "h", "m", "e", "n", "t", ";", " ">>
        \o FilenameKey

AttachmentOnly ==
    <<"a", "t", "t", "a", "c", "h", "m", "e", "n", "t", ";", " ", "x", "=">>

\* The characters the values are written from, and two values written out:
\* report.tar.gz and ".secret" (with its quotes).
CdAlphabet == {"a", ".", "/", " ", "\""}

CdExamples ==
    {<<"r", "e", "p", "o", "r", "t", ".", "t", "a", "r", ".", "g", "z">>,
     <<"\"", ".", "s", "e", "c", "r", "e", "t", "\"">>}

CdValues ==
    CdExamples \cup UNION {[1..n -> CdAlphabet] : n \in 0..MaxName}

InitDisposition ==
    /\ CrIdle
    /\ DlIdle
    /\ cdPrefix \in {AttachmentFilename, AttachmentOnly}
    /\ cdValue \in CdValues
    /\ cdResult = NotCalled
    /\ ufName = <<"a">>
    /\ ufTaken = {}
    /\ ufResult = NotCalled

\* filename_from_content_disposition(content_disposition) on the header drawn.
DispositionCall ==
    /\ cdResult = NotCalled
    /\ cdResult' = filename_from_content_disposition(cdPrefix \o cdValue)
    /\ UNCHANGED <<cdPrefix, cdValue, ufName, ufTaken, ufResult>>
    /\ UNCHANGED <<crVars, dlVars>>

NextDisposition == DispositionCall

SpecDisposition == InitDisposition /\ [][NextDisposition]_vars

\* The candidate names, and the names that may exist: each candidate and its
\* numbered names up to MaxTaken.
UfNames == {<<"a">>, <<"a", "-", "1">>}

UfProbed == {fn \o Suffix(k) : fn \in UfNames, k \in 0..MaxTaken}

InitUnique ==
    /\ CrIdle
    /\ DlIdle
    /\ cdPrefix = <<>>
    /\ cdValue = <<>>
    /\ cdResult = NotCalled
    /\ ufName \in UfNames
    /\ ufTaken \in SUBSET UfProbed
    /\ ufResult = NotCalled

\* get_unique_filename(fn, exists) on the candidate and the names drawn.
UniqueCall ==
    /\ ufResult = NotCalled
    /\ ufResult' = get_unique_filename(ufName, ufTaken)
    /\ UNCHANGED <<cdPrefix, cdValue, cdResult, ufName, ufTaken>>
    /\ UNCHANGED <<crVars, dlVars>>

NextUnique == UniqueCall

SpecUnique == InitUnique /\ [][NextUnique]_vars

\* ---------------------------------------------------------------- Download
\* The responses given to start: a status code, a Content-Length header
\* (absent, not a number, or a number) and a Content-Range header (absent,
\* empty, or written from three numbers in one of the shapes).
LengthHeaders == {Absent, <<"x">>} \cup {Str(n) : n \in 0..MaxLen}

\* The instance lengths tried with last byte position last: unknown, too
\* small, the one that fits, too large.
RangeLengths(last) == {NONE, last, last + 1, last + 2}

RangeHeaders ==
    {Absent, ContentRangeHeader("empty", 0, 0, NONE),
     ContentRangeHeader("noslash", 0, 1, NONE)} \cup
    UNION {{ContentRangeHeader("ok", first, last, len) :
               len \in RangeLengths(last)} :
           first \in 0..MaxFile, last \in 0..MaxLen}

Responses ==
    [status_code : {200, PARTIAL_CONTENT}, content_length : LengthHeaders,
     content_range : RangeHeaders]

\* try: total_size = int(response.headers['Content-Length'])
\* except (KeyError, ValueError): total_size = None
ContentLength(response) ==
    IF response.content_length # Absent /\ IsDigits(response.content_length)
    THEN IntOf(response.content_length)
    ELSE NONE

Init ==
    /\ CrIdle
    /\ FnIdle
    /\ \E given \in BOOLEAN, resume \in BOOLEAN, size \in 0..MaxFile :
          /\ dl = [output_file |-> IF given THEN "file" ELSE "None",
                   closed |-> FALSE, resume |-> resume, resumed_from |-> 0]
          /\ fileSize = IF given THEN size ELSE 0
    /\ request_headers = [accept_encoding |-> "unset", range |-> Absent]
    /\ progress = ProgressInit
    /\ reporter = ReporterInit(ClockStart)
    /\ output = [saving |-> 0, live |-> 0, summaries |-> 0, glyph |-> NONE,
                 summary |-> NoSummary]
    /\ timers = <<>>
    /\ now = ClockStart
    /\ lastCall = [op |-> "init", raised |-> ""]
    /\ hist = [chunkSum |-> 0, windowSum |-> 0, startReturned |-> FALSE,
               finishReturned |-> FALSE, read |-> NoRead]

Call(op, e) == [op |-> op, raised |-> e]

\* Download.pre_request(request_headers), called before the request is sent
\* (so before start has returned a stream).
\* os.path.getsize(self._output_file.name) raises AttributeError without an
\* output file.
\* 'bytes=%d-' % bytes_have
RangeFrom(bytes_have) == <<"b", "y", "t", "e", "s", "=">> \o Str(bytes_have)
                             \o <<"-">>

\* The variant of pre_request that asks for a range whenever the output file
\* holds bytes, resume requested or not.
pre_request_any_file(d, headers, size) ==
    IF d.resume /\ d.output_file = "None"
    THEN [raised |-> "AttributeError", resumed_from |-> d.resumed_from,
          headers |-> [headers EXCEPT !.accept_encoding = "None"]]
    ELSE [raised |-> "", resumed_from |-> IF size # 0 THEN size
                                          ELSE d.resumed_from,
          headers |-> [accept_encoding |-> "None",
                       range |-> IF size # 0 THEN RangeFrom(size)
                                 ELSE headers.range]]

\* Download.pre_request(request_headers), the output file holding size bytes:
\* the exception raised, the headers and _resumed_from after it. With resume
\* and no output file, self._output_file.name raises AttributeError after
\* Accept-Encoding was set.
pre_request(d, headers, size) ==
    IF d.resume /\ d.output_file = "None"
    THEN [raised |-> "AttributeError", resumed_from |-> d.resumed_from,
          headers |-> [headers EXCEPT !.accept_encoding = "None"]]
    ELSE LET bytes_have == size
             set == d.resume /\ bytes_have # 0
         IN  [raised |-> "",
              resumed_from |-> IF set THEN bytes_have ELSE d.resumed_from,
              headers |-> [accept_encoding |-> "None",
                           range |-> IF set THEN RangeFrom(bytes_have)
                                     ELSE headers.range]]

PreRequest ==
    /\ ~hist.startReturned
    /\ LET r == pre_request(dl, request_headers, fileSize)
       IN  /\ request_headers' = r.headers
           /\ dl' = [dl EXCEPT !.resumed_from = r.resumed_from]
           /\ lastCall' = Call("pre_request", r.raised)
    /\ UNCHANGED <<fileSize, progress, reporter, output, timers, now, hist>>

\* What the reporter's output holds after a report() that wrote w.
Written(out, w) ==
    [out EXCEPT !.live = @ + w.live,
                !.summaries = @ + w.summary,
                !.glyph = IF w.live = 1 THEN w.glyph ELSE @,
                !.summary = IF w.summary = 1 THEN w.summary_line ELSE @]

\* The branch start takes on self._output_file, self._resume and the status.
StartBranch(d, response) ==
    IF d.output_file # "None"
    THEN IF d.resume /\ response.status_code = PARTIAL_CONTENT
         THEN "resume" ELSE "fresh"
    ELSE "new"

\* What start reads of the response: the Content-Length header always, the
\* Content-Range header only on the branch that resumes; the status code is
\* kept where it made start take that branch.
ReadOf(branch, response) ==
    [status_code |-> IF branch = "resume" THEN response.status_code ELSE 0,
     content_length |-> response.content_length,
     content_range |-> IF branch = "resume" THEN response.content_range
                       ELSE Absent]

\* The ways the undecided parts of sum_up may go for the Progress p.
Envs(p) ==
    [none_raises : IF has_finished(p) /\ p.total_size = NONE
                   THEN BOOLEAN ELSE {FALSE},
     same_reading : IF has_finished(p) /\ p.time_finished = p.time_started
                    THEN BOOLEAN ELSE {FALSE}]

\* Download.start(response), from 'try:' on.
StartBody(response, env) ==
    LET branch == StartBranch(dl, response)
        content_range == response.content_range
        parsed == IF branch = "resume" /\ content_range # Absent
                     /\ content_range # <<>>
                  THEN parse_content_range(content_range, dl.resumed_from)
                  ELSE Returned(ContentLength(response))
        total_size == parsed.val
        dl1 == CASE branch = "resume" -> dl
                 [] branch = "fresh" -> [dl EXCEPT !.resumed_from = 0]
                 [] OTHER -> [dl EXCEPT !.output_file = "file",
                                        !.closed = FALSE]
        st == started(progress, dl1.resumed_from, total_size, now)
        rep == report(st.progress, reporter, now, env)
    IN  IF parsed.tag # "ok"
        THEN /\ lastCall' = Call("start", parsed.tag)
             /\ UNCHANGED <<dl, fileSize, request_headers, progress, reporter,
                            output, timers, now, hist>>
        ELSE IF branch = "fresh" /\ dl.closed
        THEN \* seek() on a closed file raises ValueError, not IOError
             /\ dl' = dl1
             /\ lastCall' = Call("start", "ValueError")
             /\ UNCHANGED <<fileSize, request_headers, progress, reporter,
                            output, timers, now, hist>>
        ELSE /\ dl' = dl1
             /\ fileSize' = IF branch = "resume" THEN fileSize ELSE 0
             /\ IF st.raised # ""
                THEN /\ lastCall' = Call("start", st.raised)
                     /\ UNCHANGED <<progress, reporter, output, timers, hist>>
                ELSE /\ progress' = st.progress
                     /\ reporter' = rep.reporter
                     /\ output' = Written([output EXCEPT !.saving = @ + 1],
                                          rep)
                     /\ timers' = IF rep.schedule
                                  THEN Append(timers, now + Tick)
                                  ELSE timers
                     /\ lastCall' = Call("start", rep.raised)
                     /\ hist' = [hist EXCEPT
                                   !.chunkSum = 0,
                                   !.windowSum = 0,
                                   !.startReturned = (rep.raised = ""),
                                   !.read = ReadOf(branch, response)]
             /\ UNCHANGED <<request_headers, now>>

\* Download.start(response).
Start ==
    IF Truthy(progress.time_started)
    THEN \* assert not self._progress.time_started
         /\ lastCall' = Call("start", "AssertionError")
         /\ UNCHANGED <<dl, fileSize, request_headers, progress, reporter,
                        output, timers, now, hist>>
    ELSE \E response \in Responses :
            \E env \in Envs(progress) :
               StartBody(response, env)

\* Download._on_progress(chunk) with len(chunk) = size.
OnProgress(size) ==
    LET c == chunk_downloaded(progress, size)
    IN  /\ progress.downloaded + size <= MaxBytes
        /\ progress' = c.progress
        /\ lastCall' = Call("chunk", c.raised)
        /\ hist' = [hist EXCEPT
                      !.chunkSum = IF c.raised = "" THEN @ + size ELSE @,
                      !.windowSum = IF c.raised = "" THEN @ + size ELSE @]
        /\ UNCHANGED <<dl, fileSize, request_headers, reporter, output,
                       timers, now>>

\* Download.finish().
Finish ==
    LET f == finished(progress, now)
    IN  IF dl.output_file = "None"
        THEN \* None has no attribute 'closed'
             /\ lastCall' = Call("finish", "AttributeError")
             /\ UNCHANGED <<dl, fileSize, request_headers, progress, reporter,
                            output, timers, now, hist>>
        ELSE IF dl.closed
        THEN \* assert not self._output_file.closed
             /\ lastCall' = Call("finish", "AssertionError")
             /\ UNCHANGED <<dl, fileSize, request_headers, progress, reporter,
                            output, timers, now, hist>>
        ELSE /\ dl' = [dl EXCEPT !.closed = TRUE]
             /\ progress' = f.progress
             /\ lastCall' = Call("finish", f.raised)
             /\ hist' = [hist EXCEPT !.finishReturned = @ \/ f.raised = ""]
             /\ UNCHANGED <<fileSize, request_headers, reporter, output,
                            timers, now>>

\* Download.interrupted, read with an output file.
interrupted(d, p) ==
    d.closed /\ Truthy(p.total_size) /\ p.total_size # p.downloaded

\* report() at time t takes a speed sample: the Progress is not finished
\* and update_interval has passed since the last sample.
Sampled(p, r, t) == ~has_finished(p) /\ t - r.prev_time >= UpdateInterval

\* A threading.Timer started by report() fires and runs report() again.
Wake(i, env) ==
    LET rep == report(progress, reporter, now, env)
        rest == SubSeq(timers, 1, i - 1) \o SubSeq(timers, i + 1, Len(timers))
    IN  /\ i \in DOMAIN timers
        /\ timers[i] <= now
        /\ reporter' = rep.reporter
        /\ output' = Written(output, rep)
        /\ timers' = IF rep.schedule THEN Append(rest, now + Tick) ELSE rest
        /\ lastCall' = Call("wake", rep.raised)
        /\ hist' = [hist EXCEPT
                      !.windowSum = IF rep.raised = ""
                                       /\ Sampled(progress, reporter, now)
                                    THEN 0 ELSE @]
        /\ UNCHANGED <<dl, fileSize, request_headers, progress, now>>

\* Progress.started called on the Progress object itself.
ProgressStarted(resumed_from, total_size) ==
    LET st == started(progress, resumed_from, total_size, now)
    IN  /\ progress' = st.progress
        /\ lastCall' = Call("started", st.raised)
        /\ hist' = [hist EXCEPT !.chunkSum = IF st.raised = "" THEN 0 ELSE @,
                                !.windowSum = IF st.raised = "" THEN 0 ELSE @]
        /\ UNCHANGED <<dl, fileSize, request_headers, reporter, output,
                       timers, now>>

\* Progress.finished called on the Progress object itself.
ProgressFinished ==
    LET f == finished(progress, now)
    IN  /\ progress' = f.progress
        /\ lastCall' = Call("finished", f.raised)
        /\ UNCHANGED <<dl, fileSize, request_headers, reporter, output,
                       timers, now, hist>>

\* Time passes, up to the horizon given.  A threading.Timer runs within the
\* 0.1 s in which it falls due: the clock does not pass a due timer.
Advance(horizon) ==
    /\ now < ClockStart + horizon
    /\ \A i \in DOMAIN timers : now < timers[i]
    /\ now' = now + 1
    /\ lastCall' = Call("advance", "")
    /\ UNCHANGED <<dl, fileSize, request_headers, progress, reporter, output,
                   timers, hist>>

Next ==
    \/ PreRequest /\ UNCHANGED <<crVars, fnVars>>
    \/ Start /\ UNCHANGED <<crVars, fnVars>>
    \/ (\E size \in 0..MaxChunk :
           /\ progress.time_started # NONE
           /\ OnProgress(size)) /\ UNCHANGED <<crVars, fnVars>>
    \/ Finish /\ UNCHANGED <<crVars, fnVars>>
    \/ (\E i \in DOMAIN timers : \E env \in Envs(progress) :
           Wake(i, env)) /\ UNCHANGED <<crVars, fnVars>>
    \/ (\E resumed_from \in {0, MaxFile}, total_size \in {NONE, MaxLen} :
           ProgressStarted(resumed_from, total_size)) /\ UNCHANGED <<crVars, fnVars>>
    \/ ProgressFinished /\ UNCHANGED <<crVars, fnVars>>
    \/ Advance(MaxElapsedCalls) /\ UNCHANGED <<crVars, fnVars>>

\* Every order of calls on the Download and its Progress, over a short time.
\* The chunk callback is called by the stream start builds, so only once
\* Progress.started has run.
Spec == Init /\ [][Next]_vars

\* The documented lifecycle (pre_request, start once, chunk callbacks while
\* the stream is read, finish once), over a time long enough for the
\* reporter to sample the speed.
NextTimed ==
    \/ PreRequest /\ UNCHANGED <<crVars, fnVars>>
    \/ (~Truthy(progress.time_started) /\ Start) /\ UNCHANGED <<crVars, fnVars>>
    \/ (\E size \in 0..MaxChunk :
           /\ hist.startReturned
           /\ ~dl.closed
           /\ OnProgress(size)) /\ UNCHANGED <<crVars, fnVars>>
    \/ (hist.startReturned /\ ~dl.closed /\ Finish) /\ UNCHANGED <<crVars, fnVars>>
    \/ (\E i \in DOMAIN timers : \E env \in Envs(progress) :
           Wake(i, env)) /\ UNCHANGED <<crVars, fnVars>>
    \/ Advance(MaxElapsed) /\ UNCHANGED <<crVars, fnVars>>

SpecTimed == Init /\ [][NextTimed]_vars

\* ------------------------------------------------------------------ claims
\* The header of the parser on its own follows the grammar
\* bytes <first>-<last>/(<len>|*).
CrGrammar == crShape \in GrammarShapes

\* C1: parse_content_range returns last+1 for every header
\* 'bytes <first>-<last>/(<len>|*)' with first = resumed_from, last >= first
\* (last = first included) and the instance length absent or last+1, and
\* raises ContentRangeError for every other header.
C1_ParseContract ==
    crResult # NoCall =>
        crResult = IF /\ CrGrammar
                      /\ crFirst = crFrom
                      /\ crLast >= crFirst
                      /\ (crLength = NONE \/ crLength = crLast + 1)
                   THEN Returned(crLast + 1)
                   ELSE Raised("ContentRangeError")

\* C2: with an output file, interrupted is true exactly when the file is
\* closed, a total size is known (0 included) and downloaded differs from it.
C2_InterruptedIff ==
    dl.output_file = "file" =>
        (interrupted(dl, progress) <=>
            /\ dl.closed
            /\ progress.total_size # NONE
            /\ progress.downloaded # progress.total_size)

\* The Content-Length the response given to start declared.
DeclaredLength == ContentLength(hist.read)

\* C3: without resume and with a declared Content-Length L > 0, after start,
\* chunk callbacks summing to S and finish, interrupted is true exactly when
\* S differs from L.
C3_InterruptedAfterFinish ==
    (/\ ~dl.resume
     /\ hist.startReturned
     /\ hist.finishReturned
     /\ DeclaredLength > 0)
    => (interrupted(dl, progress) <=> hist.chunkSum # DeclaredLength)

C3_Witness ==
    /\ ~dl.resume
    /\ hist.startReturned
    /\ hist.finishReturned
    /\ lastCall = Call("finish", "")
    /\ DeclaredLength = MaxLen
    /\ hist.chunkSum = MaxLen
    /\ ~interrupted(dl, progress)

\* C4: once Progress.started has run, downloaded is resumed_from plus the
\* sizes of the chunk callbacks accepted since (each counted once), whatever
\* the interleaving with the reporter's wakes, and downloaded never decreases.
C4_DownloadedIsSum ==
    [][/\ progress'.time_started # NONE =>
             progress'.downloaded = progress'.resumed_from + hist'.chunkSum
       /\ progress.time_started # NONE =>
             progress'.downloaded >= progress.downloaded]_vars

C4_Witness ==
    /\ progress.time_started # NONE
    /\ progress.resumed_from > 0
    /\ hist.chunkSum >= 2
    /\ output.live >= 2
    /\ lastCall = Call("chunk", "")

\* C5: a second Download.start, a second Download.finish, a chunk callback
\* after finish, Progress.started called twice, and finish or finished
\* before start or started each raise.
C5_ViolationsRaise ==
    [][/\ (lastCall'.op = "start" /\ hist.startReturned)
              => lastCall'.raised # ""
       /\ (lastCall'.op = "finish" /\ hist.finishReturned)
              => lastCall'.raised # ""
       /\ (lastCall'.op = "chunk" /\ has_finished(progress))
              => lastCall'.raised # ""
       /\ (lastCall'.op = "started" /\ progress.time_started # NONE)
              => lastCall'.raised # ""
       /\ (lastCall'.op \in {"finish", "finished"}
              /\ progress.time_started = NONE)
              => lastCall'.raised # ""]_vars

C5_Witness ==
    /\ hist.startReturned
    /\ hist.finishReturned
    /\ lastCall = Call("chunk", "AssertionError")

\* C6: a start called a second time, a finish called a second time and a
\* finish called before start fail and leave the Download as it was: the
\* file neither truncated nor closed, the resume offset and Progress unchanged.
C6_FailedCallChangesNothing ==
    [][(\/ lastCall'.op = "start" /\ hist.startReturned
        \/ lastCall'.op = "finish" /\ hist.finishReturned
        \/ lastCall'.op = "finish" /\ progress.time_started = NONE)
       => /\ lastCall'.raised # ""
          /\ dl' = dl
          /\ fileSize' = fileSize
          /\ progress' = progress]_vars

\* C7: time_finished is set only when time_started is, and once set it is
\* never changed.
C7_FinishedOnce ==
    [][/\ progress'.time_finished # NONE => progress'.time_started # NONE
       /\ progress.time_finished # NONE =>
             progress'.time_finished = progress.time_finished]_vars

C7_Witness ==
    /\ progress.time_finished # NONE
    /\ now > progress.time_finished
    /\ lastCall = Call("finished", "AssertionError")

\* C8: a wake that finds the Progress unfinished writes one live line and
\* starts exactly one next timer; a wake that finds it finished starts none
\* and, unless sum_up raises, writes the summary; so at most one timer is
\* pending, at most one summary is written and no live line follows it.
C8_WakeContract ==
    [][/\ lastCall'.op = "wake" =>
             IF has_finished(progress)
             THEN /\ Len(timers') = 0
                  /\ output'.live = output.live
                  /\ (lastCall'.raised = "" =>
                         output'.summaries = output.summaries + 1)
             ELSE /\ lastCall'.raised = ""
                  /\ output'.live = output.live + 1
                  /\ Len(timers') = 1
       /\ Len(timers') <= 1
       /\ output'.summaries <= 1
       /\ output.summaries > 0 => output'.live = output.live]_vars

\* C9: after a start that returned, the reporter keeps waking for as long as
\* finish has not been called, whether or not the total size is known (so
\* that a wake is there to write the summary once finish is called).
C9_ReporterAliveUntilFinish ==
    (hist.startReturned /\ ~has_finished(progress)) => Len(timers) = 1

\* The step is a report() that takes a speed sample: start's first report or
\* a wake, of an unfinished Progress, update_interval or more after the
\* last sample.
SampleStep ==
    /\ \/ lastCall'.op = "wake"
       \/ (lastCall'.op = "start" /\ progress.time_started = NONE
              /\ progress'.time_started # NONE)
    /\ ~has_finished(progress')
    /\ now - reporter.prev_time >= UpdateInterval

\* C10: a speed sample with the total size unknown completes without raising
\* and makes a status line from the no-total template (downloaded, speed and
\* ETA, no percentage, no total); with a total size it makes the line with
\* percentage, downloaded, total, speed and ETA.
C10_SampleLine ==
    [][SampleStep =>
          /\ lastCall'.raised = ""
          /\ reporter'.prev_time = now
          /\ IF progress'.total_size = NONE
             THEN /\ reporter'.status_line.template
                        = "PROGRESS_NO_CONTENT_LENGTH"
                  /\ reporter'.status_line.percentage = NONE
                  /\ reporter'.status_line.total = <<>>
             ELSE Truthy(progress'.total_size) =>
                  /\ reporter'.status_line.template = "PROGRESS"
                  /\ reporter'.status_line.percentage # NONE
                  /\ reporter'.status_line.total
                        = humanize_bytes(progress'.total_size)]_vars

\* The step is a wake that finds the Progress finished, with a total size
\* (so that humanize_bytes is not given None): it runs sum_up.
SumUpStep ==
    /\ lastCall'.op = "wake"
    /\ has_finished(progress)
    /\ progress.total_size # NONE

\* C11: a speed computed over zero bytes or zero elapsed time raises nothing:
\* a live-line sample with no bytes in its window gives speed zero and the
\* ETA "?", and sum_up raises nothing, time_finished = time_started included.
C11_ZeroSpeedNoError ==
    [][/\ (SampleStep /\ progress'.total_size # NONE
              /\ progress'.downloaded = reporter.prev_bytes)
          => /\ lastCall'.raised = ""
             /\ reporter'.status_line.speed = humanize_bytes(<<0, 1>>)
             /\ reporter'.status_line.eta = <<"?">>
       /\ SumUpStep => lastCall'.raised = ""]_vars

\* C12: a summary written for a Progress with time_finished > time_started
\* reports downloaded - resumed_from bytes, time_finished - time_started and
\* their quotient, whatever total_size is; with a total size it is written.
C12_SummaryValues ==
    [][(lastCall'.op = "wake" /\ has_finished(progress)
           /\ progress.time_finished > progress.time_started)
       => /\ progress.total_size # NONE => lastCall'.raised = ""
          /\ lastCall'.raised = "" =>
                /\ output'.summaries = output.summaries + 1
                /\ output'.summary.downloaded =
                      humanize_bytes(hist.chunkSum)
                /\ output'.summary.time =
                      progress.time_finished - progress.time_started
                /\ output'.summary.speed =
                      humanize_bytes(<<hist.chunkSum,
                                       progress.time_finished
                                           - progress.time_started>>)]_vars

C12_Witness ==
    /\ lastCall = Call("wake", "")
    /\ output.summaries = 1
    /\ progress.resumed_from > 0
    /\ hist.chunkSum > 0
    /\ output.summary.downloaded = humanize_bytes(hist.chunkSum)
    /\ output.summary.time > 0

\* The filename a Content-Disposition value gives: the text between the
\* double quotes of a quoted value, otherwise the value up to the first space.
GivenFilename(v) ==
    LET closing == {j \in 2..Len(v) : v[j] = "\""}
        spaces == {j \in 1..Len(v) : IsSpace(v[j])}
    IN  IF v # <<>> /\ v[1] = "\"" /\ closing # {}
        THEN SubSeq(v, 2, (CHOOSE j \in closing : \A k \in closing : j <= k) - 1)
        ELSE IF spaces = {}
             THEN v
             ELSE SubSeq(v, 1, (CHOOSE j \in spaces :
                                   \A k \in spaces : j <= k) - 1)

\* C13: for a header 'attachment; filename=<value>' the function returns the
\* filename given, its leading dots stripped, when what remains is made of
\* [A-Za-z0-9._-] only (report.tar.gz gives report.tar.gz, ".secret" gives
\* secret), and nothing when the filename contains '/' or a space.
C13_FilenameFromHeader ==
    (cdResult # NotCalled /\ cdPrefix = AttachmentFilename)
    => LET given == GivenFilename(cdValue)
       IN  /\ ValidFilename(LStripDots(given))
              => cdResult = LStripDots(given)
           /\ (\E k \in 1..Len(given) : given[k] \in {"/", " "})
              => cdResult = NoFilename

\* The name the candidate gets at attempt k, written as the claim writes it.
NumberedName(fn, k) == IF k = 0 THEN fn ELSE fn \o <<"-">> \o Str(k)

\* C14: get_unique_filename returns the candidate when it does not exist,
\* otherwise candidate-k for the smallest k >= 1 that does not exist, and
\* the name it returns never exists.
C14_UniqueFilename ==
    ufResult # NotCalled
    => /\ ufResult \notin ufTaken
       /\ ufName \notin ufTaken => ufResult = ufName
       /\ \E k \in 0..(MaxTaken + 1) :
             /\ ufResult = NumberedName(ufName, k)
             /\ \A j \in 0..(k - 1) : NumberedName(ufName, j) \in ufTaken

C14_Witness ==
    /\ ufResult = <<"a", "-", "2">>
    /\ ufName = <<"a">>
    /\ {<<"a">>, <<"a", "-", "1">>} \subseteq ufTaken
    /\ <<"a", "-", "3">> \in ufTaken

\* pre_request asks for the rest of the file: resume was requested and the
\* output file given holds bytes.
AsksRange == dl.resume /\ dl.output_file = "file" /\ fileSize # 0

\* C15: pre_request always sets Accept-Encoding to None (no compression); it
\* sets 'Range: bytes=<size>-' and records <size> as the resume offset
\* exactly when resume was requested and the output file holds bytes, and
\* otherwise adds no Range header and leaves the resume offset 0.
C15_PreRequest ==
    [][lastCall'.op = "pre_request"
       => /\ request_headers'.accept_encoding = "None"
          /\ IF AsksRange
             THEN /\ lastCall'.raised = ""
                  /\ request_headers'.range =
                        <<"b", "y", "t", "e", "s", "=">> \o Str(fileSize)
                            \o <<"-">>
                  /\ dl'.resumed_from = fileSize
             ELSE /\ request_headers'.range = request_headers.range
                  /\ dl'.resumed_from = 0]_vars

C15_Witness ==
    /\ lastCall = Call("pre_request", "")
    /\ dl.resume
    /\ fileSize = 1
    /\ request_headers = [accept_encoding |-> "None",
                          range |-> <<"b", "y", "t", "e", "s", "=", "1", "-">>]
    /\ dl.resumed_from = 1

\* The step is a start(response) that got as far as Progress.started.
StartedStep ==
    /\ lastCall'.op = "start"
    /\ ~Truthy(progress.time_started)
    /\ Truthy(progress'.time_started)

\* C16: start with an output file given keeps the resume offset and leaves
\* the file untruncated only when resume was requested, the status is 206
\* and the response carries Content-Range; in every other case, a 206
\* without Content-Range included, it resets the offset to 0 and truncates
\* the file, and the Progress starts with downloaded = 0.
C16_KeepOrTruncate ==
    [][(StartedStep /\ dl.output_file = "file")
       => IF /\ dl.resume
             /\ hist'.read.status_code = PARTIAL_CONTENT
             /\ hist'.read.content_range # Absent
          THEN /\ dl'.resumed_from = dl.resumed_from
               /\ fileSize' = fileSize
          ELSE /\ dl'.resumed_from = 0
               /\ fileSize' = 0
               /\ progress'.downloaded = 0]_vars

\* start resumed a download: resume was requested, the offset recorded is
\* not 0, and start got through with a 206 response carrying Content-Range.
ResumedDownload ==
    /\ dl.resume
    /\ dl.resumed_from > 0
    /\ Truthy(progress.time_started)
    /\ hist.read.status_code = PARTIAL_CONTENT
    /\ hist.read.content_range \notin {Absent, <<>>}

\* The last byte position the Content-Range header read by start names.
LastBytePos == IntOf(ContentRangeMatch(hist.read.content_range).last_byte_pos)

\* C17: for a resumed download from offset F with last byte position last,
\* the Progress has resumed_from = F, starts with downloaded = F and has
\* total_size = last + 1 whatever Content-Length says; after finish,
\* interrupted is false if the chunks summed to last - F + 1 and true if
\* they summed to less.
C17_ResumedDownload ==
    ResumedDownload
    => /\ progress.resumed_from = dl.resumed_from
       /\ progress.downloaded = dl.resumed_from + hist.chunkSum
       /\ progress.total_size = LastBytePos + 1
       /\ hist.finishReturned =>
             /\ hist.chunkSum = LastBytePos - dl.resumed_from + 1
                => ~interrupted(dl, progress)
             /\ hist.chunkSum < LastBytePos - dl.resumed_from + 1
                => interrupted(dl, progress)

C17_Witness ==
    /\ ResumedDownload
    /\ lastCall = Call("finish", "")
    /\ hist.chunkSum = LastBytePos - dl.resumed_from + 1
    /\ ContentLength(hist.read) # LastBytePos + 1
    /\ ~interrupted(dl, progress)

\* The Content-Range header h is one the parser accepts for the offset F:
\* it follows the grammar, starts at F, ends after F, and its instance
\* length, if given, is one more than the last byte position.
RangeAccepted(h, F) ==
    LET m == ContentRangeMatch(h)
    IN  /\ m.matched
        /\ IntOf(m.first_byte_pos) = F
        /\ IntOf(m.last_byte_pos) > F
        /\ \/ m.instance_length = <<>>
           \/ IntOf(m.instance_length) = IntOf(m.last_byte_pos) + 1

\* C18: a start that fails with ContentRangeError falls back on nothing: the
\* file is not truncated, the resume offset is unchanged, the Progress is
\* not started, no stream is returned and no wake is scheduled; and start
\* gets through with a Content-Range header of a 206 response to a resume
\* request only if the header is accepted.
C18_RejectedRange ==
    [][/\ (lastCall'.op = "start" /\ lastCall'.raised = "ContentRangeError")
          => /\ fileSize' = fileSize
             /\ dl' = dl
             /\ progress' = progress
             /\ ~Truthy(progress'.time_started)
             /\ hist' = hist
             /\ ~hist'.startReturned
             /\ timers' = timers
             /\ reporter' = reporter
             /\ output' = output
       /\ (/\ StartedStep
           /\ hist'.read.status_code = PARTIAL_CONTENT
           /\ hist'.read.content_range \notin {Absent, <<>>})
          => RangeAccepted(hist'.read.content_range, dl.resumed_from)]_vars

C18_Witness ==
    /\ lastCall = Call("start", "ContentRangeError")
    /\ dl.resume
    /\ dl.resumed_from = 1
    /\ fileSize = 1
    /\ ~Truthy(progress.time_started)
    /\ ~hist.startReturned
    /\ timers = <<>>

\* C19: every wake of the reporter before finish moves the spinner on by one
\* position of its cycle of 4 (the position stays in 0..3 and the k-th live
\* line, counted from 0, shows glyph k mod 4), whether or not the wake takes
\* a speed sample; a wake less than update_interval after the last sample
\* leaves the status line, _prev_time and _prev_bytes as they were.
C19_SpinnerAdvances ==
    [][(lastCall'.op = "wake" /\ ~has_finished(progress))
       => /\ reporter'.spinner_pos = (reporter.spinner_pos + 1) % SpinnerLen
          /\ reporter'.spinner_pos \in 0..(SpinnerLen - 1)
          /\ output'.live = output.live + 1
          /\ output'.glyph = output.live % SpinnerLen
          /\ now - reporter.prev_time < UpdateInterval
             => /\ reporter'.status_line = reporter.status_line
                /\ reporter'.prev_time = reporter.prev_time
                /\ reporter'.prev_bytes = reporter.prev_bytes]_vars

\* C20: the byte count a speed sample divides is the sum of the sizes of the
\* chunks received since the previous sample, or since start for the first
\* one; the bytes on disk before a resume are not in it.
C20_SampleCountsWindow ==
    [][(SampleStep /\ lastCall'.raised = "")
       => reporter'.status_line.speed[2][1] = hist.windowSum]_vars

====
